---- MODULE Spec2Model ----
(***************************************************************************)
(* Model of the audio streaming client: the WebSocketService transport     *)
(* (src/src/services/websocketService.ts) and the useAudioStreaming        *)
(* session hook (src/src/hooks/useAudioStreaming.ts), on a single-threaded *)
(* event loop.  Every action is one run-to-completion task: a call from    *)
(* the caller, a socket event, a timer callback, a promise continuation.   *)
(***************************************************************************)
EXTENDS Integers, Sequences, FiniteSets, TLC

\* ------------------------------------------------------------------ bounds
MaxSockets == 2        \* WebSocket objects that are not yet closed, at any one time
MaxTimers == 2         \* armed retry timers, at any one time
MaxCloseLog == 7       \* closes recorded in closeLog since the last open
MaxFrames == 1         \* frames the capture side submits in one behaviour
MaxAcquisitions == 2   \* getUserMedia calls in flight plus streams not yet stopped
MaxDecodes == 2        \* decodeAudioData calls in flight
MaxBins == 3           \* bins of an analyser read whose level is computed
MaxBlocks == 3         \* blocks the processor captures in one behaviour of CaptureSpec

NoHandler == "none"     \* a null callback field

\* -------------------------------------------------------------- transport
\* WebSocket objects and timer handles carry no identity of their own in the
\* code: all that is asked of them is whether a field references them.  A
\* field that holds a reference is given by the referenced object's state, and
\* the objects no field references are kept as a bag.
VARIABLES
  socket,                \* this.socket: NoSocket (null) or the WebSocket it references
  orphans,               \* the WebSockets connect() made that this.socket no longer references
  isConnected,           \* this.isConnected
  onMessageCallback,     \* NoHandler or the registered handler
  onConnectCallback,
  onDisconnectCallback,
  reconnectAttempts,     \* this.reconnectAttempts
  reconnectTimeout,      \* this.reconnectTimeout: "null", the handle of an "armed" timer, or of a "fired" one
  timers,                \* the number of armed retry timers
  wire,                  \* the messages socket.send() has put on the wire
  urlValid,              \* whether new WebSocket(this.url) constructs; a malformed or
                         \* forbidden url makes it throw, on every call
  endpoint               \* the server as the handshakes find it: "down" (they fail),
                         \* "up" (they succeed), or "any" (either may happen)

\* --------------------------------------------------- observation variables
VARIABLES
  invoked,               \* the registered callbacks the last task invoked, in order
  scheduled,             \* the delay the last task passed to setTimeout (0: it armed no timer)
  thrown,                \* whether the last task ended in an uncaught exception
  closeLog,              \* per close event since the last open: the delay it scheduled (0: none)
  openedFrom,            \* "never", or what reconnectAttempts was at the last open: "zero", "positive"
  callerDisconnected,    \* "no", or since the caller's last connect() it called disconnect():
                         \* "closed" if a call closed a connection, else "idle"
  nextFrame,             \* frames submitted so far
  droppedFrames,         \* the frames submitted while isConnected was false
  scenario,              \* where the session is on two toggleStreaming() calls from idle:
                         \* "idle", "acquiring", then "streaming" and "stopped", or "twice"
                         \* (second call while still acquiring); "other" off these paths
  decodeFailed,          \* a decodeAudioData call has failed
  routedDirect,          \* a decoded buffer has been started without the output analyser
  registered,            \* per event, the handler of the latest registration (NoHandler: none yet)
  bins,                  \* the analyser read handed to getAudioLevel on its own
  level                  \* NoLevel, or the level getAudioLevel computed from bins

\* ---------------------------------------------------------------- session
VARIABLES
  mounted,               \* "no" before the effects ran, "yes", "gone" after unmount
  isStreaming,           \* useState(false)
  isConnectedState,      \* the hook's isConnected, useState(false)
  micPermission,         \* useState<boolean | null>(null): "null", "true" or "false"
  inputLevel,            \* useState(0), a fraction <<numerator, denominator>>
  outputLevel,
  localStreamRef,        \* whether the ref holds a MediaStream
  audioContextRef,       \* whether the ref holds an AudioContext
  inputAnalyzerRef,      \* whether the ref holds an analyser node
  outputAnalyzerRef,
  animationFrameRef,     \* "null", the id of a "pending" frame callback, or of one that "ran"
  processorRef,          \* whether the ref holds a ScriptProcessorNode
  webSocketRef,          \* whether the ref holds the WebSocketService
  streams,               \* the number of MediaStreams whose tracks are live
  rafs,                  \* the number of pending requestAnimationFrame callbacks
  processors,            \* the number of ScriptProcessorNodes connected to the destination
  pendingAcq,            \* getUserMedia calls that have not settled
  decodes,               \* the payloads whose decodeAudioData calls have not settled
  toasts,                \* the notifications the last task sent to the sink
  played                 \* the buffers the last task scheduled, each with its route

svcVars == <<socket, orphans, isConnected, onMessageCallback, onConnectCallback,
             onDisconnectCallback, reconnectAttempts, reconnectTimeout, timers, wire,
             urlValid, endpoint>>
obsVars == <<invoked, scheduled, thrown, closeLog, openedFrom, callerDisconnected,
             nextFrame, droppedFrames, scenario, decodeFailed, routedDirect, registered, bins, level>>
hookVars == <<mounted, isStreaming, isConnectedState, micPermission, inputLevel,
              outputLevel, localStreamRef, audioContextRef, inputAnalyzerRef,
              outputAnalyzerRef, animationFrameRef, processorRef, webSocketRef,
              streams, rafs, processors, pendingAcq, decodes, toasts, played>>
vars == <<svcVars, hookVars, obsVars>>

maxReconnectAttempts == 5

Min(a, b) == IF a < b THEN a ELSE b

RECURSIVE Pow2(_)
Pow2(n) == IF n <= 0 THEN 1 ELSE 2 * Pow2(n - 1)

\* this.socket = null
NoSocket == [state |-> "NULL", promise |-> "none", awaiter |-> "none", closeCalled |-> FALSE]

\* new WebSocket(url), with the promise connect() wraps around it and the
\* party that awaits it.
NewSocket(by) == [state |-> "CONNECTING", promise |-> "pending", awaiter |-> by, closeCalled |-> FALSE]

\* A socket after its close event: it fires no further event.
ClosedSocket == [state |-> "CLOSED", promise |-> "none", awaiter |-> "none", closeCalled |-> FALSE]

IsLive(s) == s.state \in {"CONNECTING", "OPEN", "CLOSING"}

\* The bag b with one copy of x added, removed.
BagAdd(b, x) == IF x \in DOMAIN b THEN [b EXCEPT ![x] = @ + 1] ELSE b @@ (x :> 1)

BagRemove(b, x) ==
  IF b[x] > 1 THEN [b EXCEPT ![x] = @ - 1]
  ELSE IF DOMAIN b = {x} THEN << >>
  ELSE [y \in DOMAIN b \ {x} |-> b[y]]

RECURSIVE BagSize(_)
BagSize(b) ==
  IF DOMAIN b = {} THEN 0
  ELSE LET x == CHOOSE y \in DOMAIN b : TRUE IN b[x] + BagSize([y \in DOMAIN b \ {x} |-> b[y]])

EmptyBag == << >>

\* The WebSocket objects that can still fire an event.
LiveSockets == BagSize(orphans) + (IF IsLive(socket) THEN 1 ELSE 0)

\* A field stops referencing socket s: it stays among the orphans while live.
Orphaned(b, s) == IF IsLive(s) THEN BagAdd(b, s) ELSE b

\* socket.close(): a CONNECTING or OPEN socket starts closing; its close event follows.
CloseSocket(s) ==
  IF s.state \in {"CONNECTING", "OPEN"}
  THEN [s EXCEPT !.state = "CLOSING", !.closeCalled = TRUE]
  ELSE s

\* Math.min(1000 * Math.pow(2, attempt - 1), 10000)
ReconnectDelay(attempt) == Min(1000 * Pow2(attempt - 1), 10000)

\* connect(): the body of the promise executor.  this.socket is overwritten; the
\* socket it referenced is neither closed nor unbound from this service.  When
\* the constructor throws, the catch rejects the promise and every field keeps
\* its value.
connect(by) ==
  IF urlValid
  THEN /\ socket' = NewSocket(by)
       /\ orphans' = Orphaned(orphans, socket)
  ELSE UNCHANGED <<socket, orphans>>

\* attemptReconnect() with the exponent taken after the increment without the "- 1".
attemptReconnectLateExponent ==
  IF reconnectAttempts < maxReconnectAttempts
  THEN /\ reconnectAttempts' = reconnectAttempts + 1
       /\ scheduled' = ReconnectDelay(reconnectAttempts + 2)
       /\ timers' = timers + 1
       /\ reconnectTimeout' = "armed"
  ELSE /\ scheduled' = 0
       /\ UNCHANGED <<reconnectAttempts, timers, reconnectTimeout>>

\* attemptReconnect() that counts every close, also those it schedules no retry for.
attemptReconnectCountsEvery ==
  /\ reconnectAttempts' = reconnectAttempts + 1
  /\ IF reconnectAttempts < maxReconnectAttempts
     THEN /\ scheduled' = ReconnectDelay(reconnectAttempts + 1)
          /\ timers' = timers + 1
          /\ reconnectTimeout' = "armed"
     ELSE /\ scheduled' = 0
          /\ UNCHANGED <<timers, reconnectTimeout>>

\* attemptReconnect() that counts the attempt and computes the delay without
\* arming the timer.
attemptReconnectForgetsTimer ==
  IF reconnectAttempts < maxReconnectAttempts
  THEN /\ reconnectAttempts' = reconnectAttempts + 1
       /\ scheduled' = ReconnectDelay(reconnectAttempts + 1)
       /\ UNCHANGED <<timers, reconnectTimeout>>
  ELSE /\ scheduled' = 0
       /\ UNCHANGED <<reconnectAttempts, timers, reconnectTimeout>>

\* attemptReconnect(), called by onclose.
attemptReconnect ==
  IF reconnectAttempts < maxReconnectAttempts
  THEN /\ reconnectAttempts' = reconnectAttempts + 1
       /\ scheduled' = ReconnectDelay(reconnectAttempts + 1)
       /\ timers' = timers + 1
       /\ reconnectTimeout' = "armed"
  ELSE /\ scheduled' = 0
       /\ UNCHANGED <<reconnectAttempts, timers, reconnectTimeout>>

\* disconnect() that closes the socket and keeps socket and isConnected as they were.
disconnectKeepsFields(f) ==
  LET cleared == IF f.reconnectTimeout # "null"
                 THEN [f EXCEPT !.timers = IF f.reconnectTimeout = "armed" THEN @ - 1 ELSE @,
                                !.reconnectTimeout = "null"]
                 ELSE f
  IN IF cleared.socket.state # "NULL" /\ cleared.isConnected
     THEN [cleared EXCEPT !.socket = CloseSocket(cleared.socket),
                          !.closeCalls = @ + 1]
     ELSE cleared

\* disconnect(), as a function of the fields it reads.
disconnect(f) ==
  LET cleared == IF f.reconnectTimeout # "null"
                 THEN [f EXCEPT !.timers = IF f.reconnectTimeout = "armed" THEN @ - 1 ELSE @,
                                !.reconnectTimeout = "null"]
                 ELSE f
  IN IF cleared.socket.state # "NULL" /\ cleared.isConnected
     THEN [cleared EXCEPT !.orphans = Orphaned(@, CloseSocket(cleared.socket)),
                          !.closeCalls = @ + 1,
                          !.socket = NoSocket,
                          !.isConnected = FALSE]
     ELSE cleared

\* The fields disconnect() reads and writes; closeCalls counts its socket.close() calls.
Fields ==
  [socket |-> socket, orphans |-> orphans, isConnected |-> isConnected,
   reconnectTimeout |-> reconnectTimeout, timers |-> timers, closeCalls |-> 0]

\* sendAudioData() that tests this.socket alone.
sendAudioDataUnguarded(f) ==
  IF socket.state # "NULL"
  THEN CASE socket.state = "OPEN" ->
              wire' = Append(wire, [pcm16 |-> f]) /\ thrown' = FALSE
         [] socket.state = "CONNECTING" ->
              wire' = wire /\ thrown' = TRUE
         [] OTHER ->
              wire' = wire /\ thrown' = FALSE
  ELSE wire' = wire /\ thrown' = FALSE

\* sendAudioData() that calls socket.send() twice for a frame.
sendAudioDataSendsTwice(f) ==
  IF socket.state # "NULL" /\ isConnected
  THEN CASE socket.state = "OPEN" ->
              wire' = Append(Append(wire, [pcm16 |-> f]), [pcm16 |-> f]) /\ thrown' = FALSE
         [] socket.state = "CONNECTING" ->
              wire' = wire /\ thrown' = TRUE
         [] OTHER ->
              wire' = wire /\ thrown' = FALSE
  ELSE wire' = wire /\ thrown' = FALSE

\* sendAudioData(audioData): one 16-bit PCM message per frame when the service
\* holds a socket and believes it is connected.  send() on a socket that is
\* still CONNECTING throws InvalidStateError; on a closing or closed socket the
\* data is discarded.
sendAudioData(f) ==
  IF socket.state # "NULL" /\ isConnected
  THEN CASE socket.state = "OPEN" ->
              wire' = Append(wire, [pcm16 |-> f]) /\ thrown' = FALSE
         [] socket.state = "CONNECTING" ->
              wire' = wire /\ thrown' = TRUE
         [] OTHER ->
              wire' = wire /\ thrown' = FALSE
  ELSE wire' = wire /\ thrown' = FALSE

\* `if (this.onXCallback) this.onXCallback()`
Invoke(cb, event) == IF cb # NoHandler THEN <<[event |-> event, handler |-> cb]>> ELSE <<>>

\* ------------------------------------------------------------ level meter
RECURSIVE GCD(_, _)
GCD(a, b) == IF b = 0 THEN a ELSE GCD(b, a % b)

\* The number n / d (d > 0), as the fraction in lowest terms.
Frac(n, d) == <<n \div GCD(n, d), d \div GCD(n, d)>>

\* The number 0: useState(0), setInputLevel(0), setOutputLevel(0).
Zero == Frac(0, 1)

\* No level computed yet.
NoLevel == <<>>

\* The loop of getAudioLevel: sum += dataArray[i].
RECURSIVE SumBytes(_)
SumBytes(dataArray) ==
  IF dataArray = <<>> THEN 0
  ELSE dataArray[Len(dataArray)] + SumBytes(SubSeq(dataArray, 1, Len(dataArray) - 1))

\* getAudioLevel with the sum divided by dataArray.length * 256.
getAudioLevelBy256(dataArray) == Frac(SumBytes(dataArray), Len(dataArray) * 256)

\* getAudioLevel(analyzer), given the bytes getByteFrequencyData filled in:
\* sum / (dataArray.length * 255).
getAudioLevel(dataArray) == Frac(SumBytes(dataArray), Len(dataArray) * 255)

\* ----------------------------------------------- the hook's transport handlers
Toast(title, variant) == [title |-> title, variant |-> variant]

\* What no transport task touches: the session's capture side and its observations.
hookRest == <<mounted, isStreaming, micPermission, inputLevel, outputLevel,
              localStreamRef, audioContextRef, inputAnalyzerRef, outputAnalyzerRef,
              animationFrameRef, processorRef, webSocketRef, streams, rafs,
              processors, pendingAcq, scenario, decodeFailed, routedDirect, bins, level>>

\* webSocketService.onConnect(() => {...}) of the hook, when it is the handler.
OnConnectHandler ==
  IF onConnectCallback = "hook"
  THEN /\ isConnectedState' = TRUE
       /\ toasts' = <<Toast("Connected to server", "default")>>
  ELSE /\ UNCHANGED isConnectedState
       /\ toasts' = <<>>

\* An onDisconnect handler that notifies and leaves the isConnected state as it is.
OnDisconnectHandlerSilent ==
  /\ UNCHANGED isConnectedState
  /\ toasts' = IF onDisconnectCallback = "hook"
               THEN <<Toast("Disconnected from server", "destructive")>>
               ELSE <<>>

\* webSocketService.onDisconnect(() => {...}) of the hook.
OnDisconnectHandler ==
  IF onDisconnectCallback = "hook"
  THEN /\ isConnectedState' = FALSE
       /\ toasts' = <<Toast("Disconnected from server", "destructive")>>
  ELSE /\ UNCHANGED isConnectedState
       /\ toasts' = <<>>

\* The catch of setupWebSocketConnection, reached when the awaited connect() rejects.
\* A retry's connect() is made by the timer callback, whose catch is empty.
OnConnectRejected(by) ==
  IF by = "hook"
  THEN toasts' = <<Toast("Connection error", "destructive")>>
  ELSE toasts' = <<>>

\* ------------------------------------------------------ transport: events
\* The sockets that can fire an event: the one this.socket references and the
\* orphans.  All of them carry the handlers connect() bound to this service.
EventTargets ==
  {[ref |-> TRUE, s |-> socket] : x \in {s \in {socket} : IsLive(s)}}
    \cup {[ref |-> FALSE, s |-> o] : o \in DOMAIN orphans}

\* Socket t.s changes into `new` by its own event.
Becomes(t, new) ==
  IF t.ref
  THEN socket' = new /\ orphans' = orphans
  ELSE socket' = socket /\ orphans' = Orphaned(BagRemove(orphans, t.s), new)

\* socket.onopen that leaves reconnectAttempts as it is.
onopenKeepsAttempts ==
  /\ isConnected' = TRUE
  /\ reconnectAttempts' = reconnectAttempts
  /\ invoked' = Invoke(onConnectCallback, "connect")
  /\ OnConnectHandler

\* socket.onopen
onopen ==
  /\ isConnected' = TRUE
  /\ reconnectAttempts' = 0
  /\ invoked' = Invoke(onConnectCallback, "connect")
  /\ OnConnectHandler

\* socket.onclose
onclose ==
  /\ isConnected' = FALSE
  /\ invoked' = Invoke(onDisconnectCallback, "disconnect")
  /\ OnDisconnectHandler
  /\ attemptReconnect

\* socket.onerror that also retries, as onclose does.
onerrorRetries(s) ==
  /\ OnConnectRejected(s.awaiter)
  /\ attemptReconnect

\* socket.onerror that counts the failed attempt.
onerrorCountsAttempt(s) ==
  /\ OnConnectRejected(s.awaiter)
  /\ scheduled' = 0
  /\ reconnectAttempts' = reconnectAttempts + 1
  /\ UNCHANGED <<reconnectTimeout, timers>>

\* socket.onerror: reject(error).  It schedules no retry: the close event
\* that follows the error does.
onerror(s) ==
  /\ OnConnectRejected(s.awaiter)
  /\ scheduled' = 0
  /\ UNCHANGED <<reconnectAttempts, reconnectTimeout, timers>>

Record(log, d) == IF Len(log) < MaxCloseLog THEN Append(log, d) ELSE log

\* The open event of a socket: the handshake completed, resolve() settles the promise.
SocketOpen(t) ==
  /\ t.s.state = "CONNECTING"
  /\ endpoint # "down"
  /\ Becomes(t, [t.s EXCEPT !.state = "OPEN", !.promise = "resolved", !.awaiter = "none"])
  /\ onopen
  /\ scheduled' = 0
  /\ thrown' = FALSE
  /\ closeLog' = <<>>
  /\ openedFrom' = IF reconnectAttempts = 0 THEN "zero" ELSE "positive"
  /\ played' = <<>>
  /\ UNCHANGED <<onMessageCallback, onConnectCallback, onDisconnectCallback,
                 reconnectTimeout, timers, wire, hookRest, decodes,
                 callerDisconnected, nextFrame, droppedFrames, registered, urlValid, endpoint>>

\* The close event of a socket: the peer or the network closed it, the
\* handshake failed, or a close() call completed.
SocketClose(t) ==
  /\ IsLive(t.s)
  /\ t.s.state = "CONNECTING" => endpoint # "up"
  /\ reconnectAttempts < maxReconnectAttempts => timers < MaxTimers
  /\ Becomes(t, ClosedSocket)
  /\ onclose
  /\ thrown' = FALSE
  /\ closeLog' = Record(closeLog, scheduled')
  /\ played' = <<>>
  /\ UNCHANGED <<onMessageCallback, onConnectCallback, onDisconnectCallback,
                 wire, hookRest, decodes, openedFrom, callerDisconnected,
                 nextFrame, droppedFrames, registered, urlValid, endpoint>>

\* The error event of a socket whose handshake fails.  The browser fails the
\* connection with it: the socket is closing and its close event follows.
SocketError(t) ==
  /\ t.s.state \in {"CONNECTING", "CLOSING"}
  /\ t.s.promise = "pending"
  /\ t.s.state = "CONNECTING" => endpoint # "up"
  /\ Becomes(t, [t.s EXCEPT !.state = "CLOSING", !.promise = "rejected"])
  /\ onerror(t.s)
  /\ thrown' = FALSE
  /\ invoked' = <<>>
  /\ played' = <<>>
  /\ UNCHANGED <<isConnected, onMessageCallback, onConnectCallback,
                 onDisconnectCallback,
                 wire, hookRest, isConnectedState, decodes, closeLog, openedFrom,
                 callerDisconnected, nextFrame, droppedFrames, registered, urlValid, endpoint>>

\* A retry timer fires: this.connect().catch(() => {}).  The timer is the one
\* this.reconnectTimeout references or an earlier one whose handle was overwritten.
TimerFire(referenced) ==
  /\ IF referenced THEN reconnectTimeout = "armed"
                   ELSE timers > (IF reconnectTimeout = "armed" THEN 1 ELSE 0)
  /\ LiveSockets < MaxSockets
  /\ timers' = timers - 1
  /\ reconnectTimeout' = IF referenced THEN "fired" ELSE reconnectTimeout
  /\ connect("timer")
  /\ scheduled' = 0
  /\ thrown' = FALSE
  /\ invoked' = <<>>
  /\ toasts' = <<>>
  /\ played' = <<>>
  /\ UNCHANGED <<isConnected, onMessageCallback, onConnectCallback,
                 onDisconnectCallback, reconnectAttempts, wire,
                 hookRest, isConnectedState, decodes, closeLog, openedFrom,
                 callerDisconnected, nextFrame, droppedFrames, registered, urlValid, endpoint>>

\* ------------------------------------------- transport: calls of a caller
\* A connect() call of the caller that starts a fresh retry budget.
CallConnectResetsAttempts ==
  /\ LiveSockets < MaxSockets
  /\ connect("caller")
  /\ reconnectAttempts' = 0
  /\ callerDisconnected' = "no"
  /\ scheduled' = 0
  /\ thrown' = FALSE
  /\ invoked' = <<>>
  /\ toasts' = <<>>
  /\ played' = <<>>
  /\ UNCHANGED <<isConnected, onMessageCallback, onConnectCallback,
                 onDisconnectCallback, reconnectTimeout, timers,
                 wire, hookRest, isConnectedState, decodes, closeLog, openedFrom,
                 nextFrame, droppedFrames, registered, urlValid, endpoint>>

\* The caller calls connect().
CallConnect ==
  /\ LiveSockets < MaxSockets
  /\ connect("caller")
  /\ callerDisconnected' = "no"
  /\ scheduled' = 0
  /\ thrown' = FALSE
  /\ invoked' = <<>>
  /\ toasts' = <<>>
  /\ played' = <<>>
  /\ UNCHANGED <<isConnected, onMessageCallback, onConnectCallback,
                 onDisconnectCallback, reconnectAttempts, reconnectTimeout, timers,
                 wire, hookRest, isConnectedState, decodes, closeLog, openedFrom,
                 nextFrame, droppedFrames, registered, urlValid, endpoint>>

\* The fields as disconnect() leaves them.
Disconnected ==
  LET f == disconnect(Fields)
  IN /\ socket' = f.socket
     /\ orphans' = f.orphans
     /\ isConnected' = f.isConnected
     /\ reconnectTimeout' = f.reconnectTimeout
     /\ timers' = f.timers

\* The caller calls disconnect().
CallDisconnect ==
  /\ Disconnected
  /\ callerDisconnected' = IF disconnect(Fields).closeCalls > 0 \/ callerDisconnected = "closed"
                           THEN "closed" ELSE "idle"
  /\ scheduled' = 0
  /\ thrown' = FALSE
  /\ invoked' = <<>>
  /\ toasts' = <<>>
  /\ played' = <<>>
  /\ UNCHANGED <<onMessageCallback, onConnectCallback, onDisconnectCallback,
                 reconnectAttempts, wire, hookRest, isConnectedState, decodes,
                 closeLog, openedFrom, nextFrame, droppedFrames, registered, urlValid, endpoint>>

\* The caller submits the next captured frame with sendAudioData().
CallSendAudioData ==
  /\ nextFrame < MaxFrames
  /\ nextFrame' = nextFrame + 1
  /\ sendAudioData(nextFrame + 1)
  /\ droppedFrames' = IF isConnected THEN droppedFrames ELSE droppedFrames \cup {nextFrame + 1}
  /\ scheduled' = 0
  /\ invoked' = <<>>
  /\ toasts' = <<>>
  /\ played' = <<>>
  /\ UNCHANGED <<socket, orphans, isConnected, onMessageCallback, onConnectCallback,
                 onDisconnectCallback, reconnectAttempts, reconnectTimeout,
                 timers, hookRest, isConnectedState, decodes, closeLog, openedFrom,
                 callerDisconnected, registered, urlValid, endpoint>>

\* onConnect() that keeps a handler already registered.
onConnectKeepsFirst(callback) ==
  onConnectCallback' = IF onConnectCallback = NoHandler THEN callback ELSE onConnectCallback

\* onConnect(callback), onDisconnect(callback), onMessage(callback): each
\* assigns its one callback field.
onConnect(callback) == onConnectCallback' = callback

onDisconnect(callback) == onDisconnectCallback' = callback

onMessage(callback) == onMessageCallback' = callback

\* The handlers a caller of the service registers.
Handlers == {"h1", "h2"}

\* The caller registers a handler for one of the three events.
CallRegister(event, callback) ==
  /\ CASE event = "connect" ->
            onConnect(callback) /\ UNCHANGED <<onDisconnectCallback, onMessageCallback>>
       [] event = "disconnect" ->
            onDisconnect(callback) /\ UNCHANGED <<onConnectCallback, onMessageCallback>>
       [] OTHER ->
            onMessage(callback) /\ UNCHANGED <<onConnectCallback, onDisconnectCallback>>
  /\ registered' = [registered EXCEPT ![event] = callback]
  /\ scheduled' = 0
  /\ thrown' = FALSE
  /\ invoked' = <<>>
  /\ toasts' = <<>>
  /\ played' = <<>>
  /\ UNCHANGED <<socket, orphans, isConnected, reconnectAttempts, reconnectTimeout,
                 timers, wire, hookRest, isConnectedState, decodes, closeLog,
                 openedFrom, callerDisconnected, nextFrame, droppedFrames, urlValid, endpoint>>

\* ----------------------------------------------------------------- session
\* State setters are modelled as writing the state cell at once: the render
\* that follows a task and the effects of that render belong to the task.

\* The decodeAudioData calls in flight, by whether the payload is well formed.
NoDecodes == [good |-> 0, bad |-> 0]

cbVars == <<onMessageCallback, onConnectCallback, onDisconnectCallback>>
transportFields == <<socket, orphans, isConnected, reconnectAttempts, reconnectTimeout, timers>>
transportObs == <<closeLog, openedFrom>>
frameVars == <<wire, nextFrame, droppedFrames>>
levelVars == <<bins, level>>
captureVars == <<animationFrameRef, rafs, processorRef, processors, localStreamRef,
                 streams, isStreaming, inputLevel, outputLevel>>

\* cleanupStreamingResources() that leaves the processor connected.
cleanupKeepsProcessor ==
  /\ IF animationFrameRef # "null"
     THEN rafs' = rafs - 1 /\ animationFrameRef' = "null"
     ELSE UNCHANGED <<rafs, animationFrameRef>>
  /\ UNCHANGED <<processors, processorRef>>
  /\ IF localStreamRef
     THEN streams' = streams - 1 /\ localStreamRef' = FALSE
     ELSE UNCHANGED <<streams, localStreamRef>>
  /\ isStreaming' = FALSE
  /\ inputLevel' = Zero
  /\ outputLevel' = Zero

\* cleanupStreamingResources().  The processor effect's cleanup, which the
\* render after setIsStreaming(false) runs, finds processorRef already null.
cleanupStreamingResources ==
  /\ IF animationFrameRef # "null"
     THEN rafs' = rafs - 1 /\ animationFrameRef' = "null"
     ELSE UNCHANGED <<rafs, animationFrameRef>>
  /\ IF processorRef /\ audioContextRef
     THEN processors' = processors - 1 /\ processorRef' = FALSE
     ELSE UNCHANGED <<processors, processorRef>>
  /\ IF localStreamRef
     THEN streams' = streams - 1 /\ localStreamRef' = FALSE
     ELSE UNCHANGED <<streams, localStreamRef>>
  /\ isStreaming' = FALSE
  /\ inputLevel' = Zero
  /\ outputLevel' = Zero

\* The effect on [isStreaming], run by the render in which isStreaming turned
\* true: it makes the processor when the refs it tests are set.  Nothing renders
\* once the component is unmounted.
ProcessorEffect ==
  IF ~isStreaming /\ mounted = "yes" /\ webSocketRef
  THEN processorRef' = TRUE /\ processors' = processors + 1
  ELSE UNCHANGED <<processorRef, processors>>

\* toggleStreaming() after `await getUserMedia` resolved with a stream.
toggleStreamingResumed ==
  /\ localStreamRef' = TRUE
  /\ streams' = streams + 1
  /\ micPermission' = "true"
  /\ audioContextRef' = TRUE
  /\ inputAnalyzerRef' = TRUE
  /\ outputAnalyzerRef' = TRUE
  /\ isStreaming' = TRUE
  /\ rafs' = rafs + 1
  /\ animationFrameRef' = "pending"
  /\ toasts' = <<Toast("Streaming started", "default")>>
  /\ ProcessorEffect
  /\ UNCHANGED <<inputLevel, outputLevel>>

\* The catch of toggleStreaming() with the else of its if missing.
toggleStreamingCatchFallsThrough(name) ==
  /\ IF name = "NotAllowedError"
     THEN /\ micPermission' = "false"
          /\ toasts' = <<Toast("Permission denied", "destructive"),
                         Toast("Streaming error", "destructive")>>
     ELSE /\ UNCHANGED micPermission
          /\ toasts' = <<Toast("Streaming error", "destructive")>>
  /\ cleanupStreamingResources

\* The catch of toggleStreaming(), for a getUserMedia rejection named `name`.
toggleStreamingCatch(name) ==
  /\ IF name = "NotAllowedError"
     THEN /\ micPermission' = "false"
          /\ toasts' = <<Toast("Permission denied", "destructive")>>
     ELSE /\ UNCHANGED micPermission
          /\ toasts' = <<Toast("Streaming error", "destructive")>>
  /\ cleanupStreamingResources

\* The first effect: setupWebSocketConnection() up to `await connect()`.
Mount ==
  /\ mounted = "no"
  /\ mounted' = "yes"
  /\ audioContextRef' = TRUE
  /\ webSocketRef' = TRUE
  /\ onConnectCallback' = "hook"
  /\ onDisconnectCallback' = "hook"
  /\ onMessageCallback' = "hook"
  /\ registered' = [connect |-> "hook", disconnect |-> "hook", message |-> "hook"]
  /\ connect("hook")
  /\ IF urlValid THEN toasts' = <<>> ELSE OnConnectRejected("hook")
  /\ invoked' = <<>>
  /\ scheduled' = 0
  /\ thrown' = FALSE
  /\ played' = <<>>
  /\ UNCHANGED <<isConnected, reconnectAttempts, reconnectTimeout, timers, frameVars,
                 captureVars, isConnectedState, micPermission, inputAnalyzerRef,
                 outputAnalyzerRef, pendingAcq, decodes, transportObs,
                 callerDisconnected, scenario, decodeFailed, routedDirect, levelVars, urlValid, endpoint>>

\* toggleStreaming() that opens the transport when it starts.
toggleStreamingStartConnects ==
  /\ pendingAcq + streams < MaxAcquisitions
  /\ pendingAcq' = pendingAcq + 1
  /\ UNCHANGED captureVars
  /\ connect("hook")
  /\ UNCHANGED <<isConnected, reconnectAttempts, reconnectTimeout, timers>>

\* toggleStreaming() that reports Streaming before the device is acquired.
toggleStreamingStartOptimistic ==
  /\ pendingAcq + streams < MaxAcquisitions
  /\ pendingAcq' = pendingAcq + 1
  /\ isStreaming' = TRUE
  /\ UNCHANGED <<animationFrameRef, rafs, processorRef, processors, localStreamRef,
                 streams, inputLevel, outputLevel>>
  /\ UNCHANGED transportFields

\* toggleStreaming() that reopens a transport it finds disconnected.
toggleStreamingStartReconnects ==
  /\ pendingAcq + streams < MaxAcquisitions
  /\ pendingAcq' = pendingAcq + 1
  /\ UNCHANGED captureVars
  /\ IF isConnected
     THEN UNCHANGED transportFields
     ELSE /\ connect("hook")
          /\ reconnectAttempts' = 0
          /\ UNCHANGED <<isConnected, reconnectTimeout, timers>>

\* toggleStreaming() when isStreaming is false, up to `await getUserMedia`.
toggleStreamingStart ==
  /\ pendingAcq + streams < MaxAcquisitions
  /\ pendingAcq' = pendingAcq + 1
  /\ UNCHANGED captureVars
  /\ UNCHANGED transportFields

\* toggleStreaming() whose stop also disconnects the transport.
toggleStreamingStopDisconnects ==
  /\ cleanupStreamingResources
  /\ UNCHANGED pendingAcq
  /\ Disconnected
  /\ UNCHANGED reconnectAttempts

\* toggleStreaming() when isStreaming is true: cleanupStreamingResources(); return.
toggleStreamingStop ==
  /\ cleanupStreamingResources
  /\ UNCHANGED pendingAcq
  /\ UNCHANGED transportFields

\* toggleStreaming() up to its return or its await.
ToggleStreaming ==
  /\ mounted = "yes"
  /\ IF isStreaming
     THEN /\ toggleStreamingStop
          /\ scenario' = IF scenario = "streaming" THEN "stopped" ELSE "other"
     ELSE /\ toggleStreamingStart
          /\ scenario' = CASE scenario \in {"idle", "stopped"} -> "acquiring"
                            [] scenario = "acquiring" -> "twice"
                            [] OTHER -> "other"
  /\ invoked' = <<>>
  /\ scheduled' = 0
  /\ thrown' = FALSE
  /\ toasts' = <<>>
  /\ played' = <<>>
  /\ UNCHANGED <<cbVars, frameVars, mounted, isConnectedState,
                 micPermission, audioContextRef, inputAnalyzerRef, outputAnalyzerRef,
                 webSocketRef, decodes, transportObs, callerDisconnected,
                 decodeFailed, routedDirect, levelVars, registered, urlValid, endpoint>>

\* A getUserMedia call resolves.
AcquireSuccess ==
  /\ pendingAcq > 0
  /\ pendingAcq' = pendingAcq - 1
  /\ toggleStreamingResumed
  /\ scenario' = CASE scenario = "acquiring" -> "streaming"
                    [] scenario = "twice" -> "twice"
                    [] OTHER -> "other"
  /\ invoked' = <<>>
  /\ scheduled' = 0
  /\ thrown' = FALSE
  /\ played' = <<>>
  /\ UNCHANGED <<transportFields, cbVars, frameVars, mounted, isConnectedState,
                 webSocketRef, decodes, transportObs, callerDisconnected,
                 decodeFailed, routedDirect, levelVars, registered, urlValid, endpoint>>

\* A getUserMedia call rejects with an error of the given name.
AcquireFail(name) ==
  /\ pendingAcq > 0
  /\ pendingAcq' = pendingAcq - 1
  /\ toggleStreamingCatch(name)
  /\ scenario' = IF scenario = "acquiring" THEN "idle" ELSE "other"
  /\ invoked' = <<>>
  /\ scheduled' = 0
  /\ thrown' = FALSE
  /\ played' = <<>>
  /\ UNCHANGED <<transportFields, cbVars, frameVars, mounted, isConnectedState,
                 audioContextRef, inputAnalyzerRef, outputAnalyzerRef,
                 webSocketRef, decodes, transportObs, callerDisconnected,
                 decodeFailed, routedDirect, levelVars, registered, urlValid, endpoint>>

\* What getByteFrequencyData can fill in on a tick: silence or full scale.
AnalyserReads == {<<0, 0>>, <<255, 255>>}

\* updateLevels(), the requestAnimationFrame callback of a metering loop.
updateLevels(inputData, outputData) ==
  /\ inputLevel' = IF inputAnalyzerRef THEN getAudioLevel(inputData) ELSE inputLevel
  /\ outputLevel' = IF outputAnalyzerRef THEN getAudioLevel(outputData) ELSE outputLevel
  /\ animationFrameRef' = "pending"
  /\ rafs' = rafs

\* A pending frame callback runs.
Tick(inputData, outputData) ==
  /\ rafs > 0
  /\ updateLevels(inputData, outputData)
  /\ invoked' = <<>>
  /\ scheduled' = 0
  /\ thrown' = FALSE
  /\ toasts' = <<>>
  /\ played' = <<>>
  /\ UNCHANGED <<transportFields, cbVars, frameVars, mounted, isStreaming,
                 isConnectedState, micPermission, localStreamRef, audioContextRef,
                 inputAnalyzerRef, outputAnalyzerRef, processorRef, webSocketRef,
                 streams, processors, pendingAcq, decodes, transportObs,
                 callerDisconnected, scenario, decodeFailed, routedDirect, levelVars, registered, urlValid, endpoint>>

\* The hook's onMessage handler: decodeAudioData is started when there is a context.
OnMessageHandler(payload) ==
  IF onMessageCallback = "hook" /\ audioContextRef
  THEN decodes' = [decodes EXCEPT ![payload] = @ + 1]
  ELSE UNCHANGED decodes

\* socket.onmessage for a binary message.
onmessage(payload) ==
  /\ invoked' = Invoke(onMessageCallback, "message")
  /\ OnMessageHandler(payload)

\* An open socket delivers a binary message from the server.
ServerMessage(t, payload) ==
  /\ t.s.state = "OPEN"
  /\ decodes.good + decodes.bad < MaxDecodes
  /\ onmessage(payload)
  /\ scheduled' = 0
  /\ thrown' = FALSE
  /\ toasts' = <<>>
  /\ played' = <<>>
  /\ UNCHANGED <<transportFields, cbVars, frameVars, hookRest, isConnectedState,
                 transportObs, callerDisconnected, registered, urlValid, endpoint>>

\* A success callback whose route was fixed when the handler was registered,
\* at mount, when no output analyser existed.
onDecodedRoutedAtSetup ==
  /\ played' = <<[route |-> "direct"]>>
  /\ UNCHANGED <<captureVars, audioContextRef, inputAnalyzerRef, outputAnalyzerRef>>

\* decodeAudioData's success callback: the buffer is routed and started.
onDecoded ==
  /\ played' = <<[route |-> IF outputAnalyzerRef THEN "tap" ELSE "direct"]>>
  /\ UNCHANGED <<captureVars, audioContextRef, inputAnalyzerRef, outputAnalyzerRef>>

\* A decode failure handler that gives up on the session.
onDecodeErrorTearsDown ==
  /\ played' = <<>>
  /\ cleanupStreamingResources
  /\ UNCHANGED <<audioContextRef, inputAnalyzerRef, outputAnalyzerRef>>

\* decodeAudioData(...).catch(err => console.error(...))
onDecodeError ==
  /\ played' = <<>>
  /\ UNCHANGED <<captureVars, audioContextRef, inputAnalyzerRef, outputAnalyzerRef>>

\* A decodeAudioData call settles.
DecodeDone(payload) ==
  /\ decodes[payload] > 0
  /\ decodes' = [decodes EXCEPT ![payload] = @ - 1]
  /\ IF payload = "good" THEN onDecoded ELSE onDecodeError
  /\ decodeFailed' = (decodeFailed \/ payload = "bad")
  /\ routedDirect' = (routedDirect \/ (payload = "good" /\ ~outputAnalyzerRef))
  /\ invoked' = <<>>
  /\ scheduled' = 0
  /\ thrown' = FALSE
  /\ toasts' = <<>>
  /\ UNCHANGED <<transportFields, cbVars, frameVars, mounted, isConnectedState,
                 micPermission, webSocketRef, pendingAcq, transportObs,
                 callerDisconnected, scenario, levelVars, registered, urlValid, endpoint>>

\* processor.onaudioprocess for the next captured block, of at most `limit`.
onaudioprocess(limit) ==
  /\ processors > 0
  /\ nextFrame < limit
  /\ nextFrame' = nextFrame + 1
  /\ IF webSocketRef /\ isConnected
     THEN sendAudioData(nextFrame + 1)
     ELSE wire' = wire /\ thrown' = FALSE
  /\ droppedFrames' = IF webSocketRef /\ isConnected THEN droppedFrames ELSE droppedFrames \cup {nextFrame + 1}
  /\ invoked' = <<>>
  /\ scheduled' = 0
  /\ toasts' = <<>>
  /\ played' = <<>>
  /\ UNCHANGED <<transportFields, cbVars, hookRest, isConnectedState, decodes,
                 transportObs, callerDisconnected, registered, urlValid, endpoint>>

\* The processor delivers a captured block.
AudioProcess == onaudioprocess(MaxFrames)

\* The same, with room for a longer run of blocks.
CaptureBlock == onaudioprocess(MaxBlocks)

\* The component unmounts: the cleanups of the three effects, in the order
\* the effects are declared.
Unmount ==
  /\ mounted = "yes"
  /\ mounted' = "gone"
  /\ IF webSocketRef
     THEN /\ Disconnected
          /\ callerDisconnected' = IF disconnect(Fields).closeCalls > 0 THEN "closed" ELSE "idle"
     ELSE UNCHANGED <<socket, orphans, isConnected, reconnectTimeout, timers, callerDisconnected>>
  /\ webSocketRef' = FALSE
  /\ cleanupStreamingResources
  /\ audioContextRef' = FALSE
  /\ scenario' = "other"
  /\ invoked' = <<>>
  /\ scheduled' = 0
  /\ thrown' = FALSE
  /\ toasts' = <<>>
  /\ played' = <<>>
  /\ UNCHANGED <<reconnectAttempts, cbVars, frameVars, isConnectedState, micPermission,
                 inputAnalyzerRef, outputAnalyzerRef, pendingAcq, decodes,
                 transportObs, decodeFailed, routedDirect, levelVars, registered, urlValid, endpoint>>

\* getAudioLevel applied to the analyser read `bins`.
ReadLevel ==
  /\ level = NoLevel
  /\ level' = getAudioLevel(bins)
  /\ UNCHANGED <<svcVars, hookVars, invoked, scheduled, thrown, closeLog, openedFrom,
                 callerDisconnected, nextFrame, droppedFrames, scenario, decodeFailed, routedDirect,
                 registered, bins>>

\* ------------------------------------------------------------ initial state
\* The fields of a WebSocketService after its constructor.
SvcFieldsInit ==
  /\ socket = NoSocket
  /\ orphans = << >>
  /\ isConnected = FALSE
  /\ reconnectAttempts = 0
  /\ reconnectTimeout = "null"
  /\ timers = 0
  /\ wire = <<>>

\* The hook's state and refs at the first render.
HookFieldsInit ==
  /\ mounted = "no"
  /\ isStreaming = FALSE
  /\ isConnectedState = FALSE
  /\ micPermission = "null"
  /\ inputLevel = Zero
  /\ outputLevel = Zero
  /\ localStreamRef = FALSE
  /\ audioContextRef = FALSE
  /\ inputAnalyzerRef = FALSE
  /\ outputAnalyzerRef = FALSE
  /\ animationFrameRef = "null"
  /\ processorRef = FALSE
  /\ webSocketRef = FALSE
  /\ streams = 0
  /\ rafs = 0
  /\ processors = 0
  /\ pendingAcq = 0
  /\ decodes = NoDecodes
  /\ toasts = <<>>
  /\ played = <<>>

\* The observation variables before anything has happened, but for the analyser read.
ObsInitButBins ==
  /\ invoked = <<>>
  /\ scheduled = 0
  /\ thrown = FALSE
  /\ closeLog = <<>>
  /\ openedFrom = "never"
  /\ callerDisconnected = "no"
  /\ nextFrame = 0
  /\ droppedFrames = {}
  /\ scenario = "idle"
  /\ decodeFailed = FALSE
  /\ routedDirect = FALSE
  /\ registered = [connect |-> onConnectCallback, disconnect |-> onDisconnectCallback,
                   message |-> onMessageCallback]
  /\ level = NoLevel

ObsInit ==
  /\ bins = <<>>
  /\ ObsInitButBins

\* The session hook as the component uses it: mount, the user's toggles, the
\* device, socket, timer, frame and decode events, unmount.
Init ==
  /\ SvcFieldsInit
  /\ urlValid \in BOOLEAN
  /\ endpoint = "any"
  /\ onMessageCallback = NoHandler
  /\ onConnectCallback = NoHandler
  /\ onDisconnectCallback = NoHandler
  /\ HookFieldsInit
  /\ ObsInit

Next ==
  \/ Mount
  \/ ToggleStreaming
  \/ AcquireSuccess
  \/ \E name \in {"NotAllowedError", "NotFoundError"} : AcquireFail(name)
  \/ \E inputData \in AnalyserReads, outputData \in AnalyserReads : Tick(inputData, outputData)
  \/ \E t \in EventTargets, payload \in {"good", "bad"} : ServerMessage(t, payload)
  \/ \E payload \in {"good", "bad"} : DecodeDone(payload)
  \/ AudioProcess
  \/ Unmount
  \/ \E t \in EventTargets : SocketOpen(t)
  \/ \E t \in EventTargets : SocketClose(t)
  \/ \E t \in EventTargets : SocketError(t)
  \/ \E referenced \in BOOLEAN : TimerFire(referenced)

Spec == Init /\ [][Next]_vars

\* The capture path of the session: the tasks that decide which blocks are
\* captured and which reach the wire.  Metering, playback and failed
\* acquisitions, which touch neither the transport nor the processor's
\* callback, are left out to make room for a longer run of blocks.
CaptureNext ==
  \/ Mount
  \/ ToggleStreaming
  \/ AcquireSuccess
  \/ CaptureBlock
  \/ Unmount
  \/ \E t \in EventTargets : SocketOpen(t)
  \/ \E t \in EventTargets : SocketClose(t)
  \/ \E t \in EventTargets : SocketError(t)
  \/ \E referenced \in BOOLEAN : TimerFire(referenced)

CaptureSpec == Init /\ [][CaptureNext]_vars

\* The byte values the level meter is read on besides constant fills.
SomeBytes == {0, 1, 254, 255}

\* Analyser reads of 1..MaxBins bins: every constant fill, and every mix of SomeBytes.
LevelInputs ==
  UNION {{[i \in 1..n |-> v] : v \in 0..255} \cup [1..n -> SomeBytes] : n \in 1..MaxBins}

\* getAudioLevel on its own, applied once to an analyser read.
LevelInit ==
  /\ SvcFieldsInit
  /\ urlValid = TRUE
  /\ endpoint = "any"
  /\ onMessageCallback = NoHandler
  /\ onConnectCallback = NoHandler
  /\ onDisconnectCallback = NoHandler
  /\ HookFieldsInit
  /\ ObsInitButBins
  /\ bins \in LevelInputs

LevelNext == ReadLevel

LevelSpec == LevelInit /\ [][LevelNext]_vars

\* A WebSocketService used on its own: constructed, its three handlers
\* registered by the caller, then driven by the caller's calls and the
\* socket and timer events.
SvcInit ==
  /\ SvcFieldsInit
  /\ urlValid \in BOOLEAN
  /\ endpoint = "any"
  /\ onMessageCallback = "h1"
  /\ onConnectCallback = "h1"
  /\ onDisconnectCallback = "h1"
  /\ HookFieldsInit
  /\ ObsInit

SvcNext ==
  \/ CallConnect
  \/ CallDisconnect
  \/ CallSendAudioData
  \/ \E t \in EventTargets : SocketOpen(t)
  \/ \E t \in EventTargets : SocketClose(t)
  \/ \E t \in EventTargets : SocketError(t)
  \/ \E referenced \in BOOLEAN : TimerFire(referenced)

SvcSpec == SvcInit /\ [][SvcNext]_vars

\* A WebSocketService whose caller registers and replaces handlers while it
\* connects and disconnects and the socket delivers its events.
HandlerNext ==
  \/ \E event \in {"connect", "disconnect", "message"}, callback \in Handlers :
        CallRegister(event, callback)
  \/ CallConnect
  \/ CallDisconnect
  \/ \E t \in EventTargets : SocketOpen(t)
  \/ \E t \in EventTargets : SocketClose(t)
  \/ \E t \in EventTargets : SocketError(t)
  \/ \E t \in EventTargets, payload \in {"good", "bad"} : ServerMessage(t, payload)
  \/ \E referenced \in BOOLEAN : TimerFire(referenced)

HandlerSpec == SvcInit /\ [][HandlerNext]_vars

\* The server starts accepting handshakes, and goes on accepting them.
EndpointUp ==
  /\ endpoint = "down"
  /\ endpoint' = "up"
  /\ UNCHANGED <<socket, orphans, isConnected, onMessageCallback, onConnectCallback,
                 onDisconnectCallback, reconnectAttempts, reconnectTimeout, timers, wire,
                 urlValid, hookVars, obsVars>>

\* A WebSocketService whose caller connects once, replaces handlers and
\* submits frames, against a server that is down and may come up for good:
\* handshakes fail while it is down and succeed once it is up; an established
\* connection may still be closed.
ReconnectInit ==
  /\ SvcFieldsInit
  /\ urlValid = TRUE
  /\ endpoint = "down"
  /\ onMessageCallback = "h1"
  /\ onConnectCallback = "h1"
  /\ onDisconnectCallback = "h1"
  /\ HookFieldsInit
  /\ ObsInit

FirstConnect == socket = NoSocket /\ CallConnect

SocketOpens == \E t \in EventTargets : SocketOpen(t)

\* The close event of a socket that is not an established connection: a
\* failed handshake or a close() in progress completes.
PendingCloses == \E t \in EventTargets : t.s.state # "OPEN" /\ SocketClose(t)

TimerFires == \E referenced \in BOOLEAN : TimerFire(referenced)

ReconnectNext ==
  \/ FirstConnect
  \/ \E event \in {"connect", "disconnect", "message"}, callback \in Handlers :
        CallRegister(event, callback)
  \/ CallSendAudioData
  \/ EndpointUp
  \/ SocketOpens
  \/ \E t \in EventTargets : SocketClose(t)
  \/ \E t \in EventTargets : SocketError(t)
  \/ TimerFires

\* The event loop runs every timer that is due and delivers every event a
\* socket has pending.
ReconnectSpec ==
  /\ ReconnectInit
  /\ [][ReconnectNext]_vars
  /\ WF_vars(SocketOpens)
  /\ WF_vars(PendingCloses)
  /\ WF_vars(TimerFires)

\* ------------------------------------------------------- transport: claims
ExpectedDelays == <<1000, 2000, 4000, 8000, 10000>>

\* What n consecutive closes schedule: the five delays, then nothing.
ExpectedLog(n) == [i \in 1..n |-> IF i <= Len(ExpectedDelays) THEN ExpectedDelays[i] ELSE 0]

\* C1: while no connection attempt of the transport has ever opened, the
\* delays scheduled by its consecutive close events are 1000, 2000, 4000, 8000,
\* 10000 in that order, and every close after the fifth schedules no retry.
C1_RetryDelays ==
  openedFrom = "never" => closeLog = ExpectedLog(Len(closeLog))

\* Six closes in a row without any open: five retries scheduled, the sixth none.
C1_Witness ==
  /\ openedFrom = "never"
  /\ Len(closeLog) = 6
  /\ closeLog[5] = 10000
  /\ closeLog[6] = 0

\* C2: an open resets the attempt counter to 0 whatever it was: the closes
\* that follow an open schedule 1000, 2000, 4000, 8000, 10000 again, and the
\* counter is the number of closes since that open, up to 5.
C2_ResetOnOpen ==
  openedFrom # "never" =>
    /\ closeLog = ExpectedLog(Len(closeLog))
    /\ reconnectAttempts = Min(Len(closeLog), maxReconnectAttempts)

\* An open that found the counter above 0, followed by six closes in a row.
C2_Witness ==
  /\ openedFrom = "positive"
  /\ Len(closeLog) = 6
  /\ closeLog[1] = 1000
  /\ closeLog[6] = 0

\* The sockets disconnect() called close() on and whose close event is still to come.
ClosingByCaller == {o \in DOMAIN orphans : o.closeCalled}

\* A task that is the close event of a socket disconnect() closed.
CloseAfterDisconnectStep ==
  \E o \in ClosingByCaller : o \notin DOMAIN orphans' \/ orphans'[o] < orphans[o]

\* A task that is a retry timer firing.
TimerFireStep == timers' < timers /\ socket'.state = "CONNECTING" /\ socket'.awaiter = "timer"

\* C3: the close event that follows a disconnect() of a connected transport
\* schedules no retry timer, and after such a disconnect() no retry timer
\* opens a connection until the caller calls connect() again.
C3_NoReconnectAfterDisconnect ==
  [][/\ CloseAfterDisconnectStep => timers' = timers /\ scheduled' = 0
     /\ callerDisconnected = "closed" => ~TimerFireStep]_vars

\* C4: once the caller has called disconnect(), and until it calls connect()
\* again, the connected flag is false and onConnect is not invoked, also when
\* the call came while a handshake was in flight.
C4_StaysDisconnected ==
  callerDisconnected # "no" =>
    /\ ~isConnected
    /\ \A i \in 1..Len(invoked) : invoked[i].event # "connect"

\* C5: in every state of the transport, a second disconnect() right after a
\* first leaves every field as the first left it and calls close() on no
\* socket.  (disconnect() invokes no callback itself: it has none to invoke.)
C5_DisconnectIdempotent ==
  LET once == [disconnect(Fields) EXCEPT !.closeCalls = 0]
  IN disconnect(once) = once

\* disconnect() has just closed a connection and cleared the retry timer.
C5_Witness ==
  /\ callerDisconnected = "closed"
  /\ ClosingByCaller # {}
  /\ socket = NoSocket
  /\ reconnectTimeout = "null"
  /\ ~isConnected

\* C6: a frame submitted while isConnected is false never reaches the wire,
\* at once or after a later reconnect, and its sendAudioData call throws nothing.
C6_SendWhileDisconnected ==
  /\ \A i \in 1..Len(wire) : wire[i].pcm16 \notin droppedFrames
  /\ thrown => nextFrame \notin droppedFrames

\* A frame was submitted while disconnected, and the transport has since connected.
C6_Witness ==
  /\ droppedFrames # {}
  /\ isConnected
  /\ socket.state = "OPEN"
  /\ wire = <<>>

\* --------------------------------------------------------- session: claims
PermissionDenied == Toast("Permission denied", "destructive")

\* C7: when getUserMedia fails with permission denied, the step that handles
\* the failure leaves micPermission false and isStreaming false, and the
\* notifications of that step are exactly one, of severity destructive.
C7_PermissionDenied ==
  (\E i \in DOMAIN toasts : toasts[i].title = "Permission denied") =>
     /\ micPermission = "false"
     /\ ~isStreaming
     /\ Len(toasts) = 1
     /\ toasts[1].variant = "destructive"

\* The acquisition was refused: one destructive notification, session idle.
C7_Witness ==
  /\ toasts = <<PermissionDenied>>
  /\ micPermission = "false"
  /\ ~isStreaming
  /\ streams = 0

\* C8: two toggleStreaming() calls made one after the other from idle, with
\* every acquisition they started granted, end idle: once nothing is pending
\* both levels are 0, isStreaming is false, no device stream is open or
\* referenced, and no frame callback or processor is left over.  The second
\* call comes either after the first has reached streaming ("stopped") or
\* while the first is still waiting for the device ("twice").
C8_ToggleTwice ==
  (scenario = "stopped" \/ (scenario = "twice" /\ pendingAcq = 0)) =>
     /\ inputLevel = Zero
     /\ outputLevel = Zero
     /\ ~localStreamRef
     /\ streams = 0
     /\ ~isStreaming
     /\ rafs = 0
     /\ animationFrameRef = "null"
     /\ processors = 0
     /\ ~processorRef

DecodeFailStep == decodes'.bad < decodes.bad
DecodeGoodStep == decodes'.good < decodes.good
HookMessageStep ==
  /\ invoked' = <<[event |-> "message", handler |-> "hook"]>>
  /\ audioContextRef

\* C9: the step in which a decode fails changes neither isStreaming nor
\* either connected flag and no capture, audio or transport resource; and once
\* a decode has failed, every message the hook receives while it has a
\* context still starts a decode, and every decode of a well-formed payload
\* that completes still schedules its playback.
C9_DecodeFailureIsHarmless ==
  [][ /\ DecodeFailStep =>
           /\ UNCHANGED <<isStreaming, isConnectedState, isConnected>>
           /\ UNCHANGED <<captureVars, audioContextRef, inputAnalyzerRef,
                          outputAnalyzerRef, webSocketRef, mounted>>
           /\ UNCHANGED <<transportFields, cbVars>>
           /\ decodes'.good = decodes.good
      /\ (decodeFailed /\ HookMessageStep) =>
           decodes'.good + decodes'.bad = decodes.good + decodes.bad + 1
      /\ (decodeFailed /\ DecodeGoodStep) => played' # <<>>
    ]_vars

\* After a decode failure a well-formed payload was played, the session still
\* streaming and connected.
C9_Witness ==
  /\ decodeFailed
  /\ played # <<>>
  /\ isStreaming
  /\ isConnectedState
  /\ isConnected

\* C10: the level computed from N > 0 bins is the sum of the bins divided by
\* N * 255; so N bins all equal to V give V / 255, all-zero gives 0 and
\* all-255 gives 1.  Levels are fractions in lowest terms, and two IEEE
\* quotients of integers below 2^53 are equal when the fractions are.
C10_LevelIsMeanOver255 ==
  level # NoLevel =>
     LET N == Len(bins)
     IN /\ N > 0
        /\ level[2] > 0
        /\ level[1] * (N * 255) = SumBytes(bins) * level[2]
        /\ \A V \in 0..255 :
              (\A i \in 1..N : bins[i] = V) =>
                 /\ level = Frac(V, 255)
                 /\ (V = 0 => level = <<0, 1>>)
                 /\ (V = 255 => level = <<1, 1>>)

\* The level of several bins all equal to 254 has been computed.
C10_Witness ==
  /\ Len(bins) > 1
  /\ \A i \in DOMAIN bins : bins[i] = 254
  /\ level = <<254, 255>>

\* The sockets of the session's transport that are connecting or open.
ActiveSockets ==
  (IF socket.state \in {"CONNECTING", "OPEN"} THEN 1 ELSE 0)
    + BagSize([o \in {x \in DOMAIN orphans : x.state \in {"CONNECTING", "OPEN"}} |-> orphans[o]])

\* C11: in every state of the session at most one socket of its transport is
\* connecting or open.
C11_OneActiveSocket == ActiveSockets <= 1

\* After teardown a retry has made a new socket: it is the only active one.
C11_Witness ==
  /\ mounted = "gone"
  /\ socket.state = "CONNECTING"
  /\ socket.awaiter = "timer"
  /\ ActiveSockets = 1

\* C12: in every state of the session at most one media stream obtained from
\* getUserMedia has live tracks.
C12_OneCaptureHandle == streams <= 1

\* C13: a toggleStreaming() made while a getUserMedia call is pending starts
\* no further acquisition; and when, after such a call, the last pending
\* acquisition settles, the session is idle: isStreaming false, no stream
\* live or referenced.
C13_ToggleWhilePendingStops ==
  [][ /\ (pendingAcq > 0 => pendingAcq' <= pendingAcq)
      /\ (scenario = "twice" /\ pendingAcq = 1 /\ pendingAcq' = 0) =>
           (~isStreaming' /\ streams' = 0 /\ ~localStreamRef')
    ]_vars

\* C14: once the component is torn down, in every later state no frame
\* callback is scheduled, no stream is live, the audio context is released, and
\* the transport is disconnected: no socket connecting or open, connected flag
\* false, no retry timer armed.
C14_TeardownIsFinal ==
  mounted = "gone" =>
     /\ rafs = 0
     /\ streams = 0
     /\ ~localStreamRef
     /\ ~audioContextRef
     /\ ActiveSockets = 0
     /\ ~isConnected
     /\ timers = 0

\* C15: whenever isStreaming is false and no getUserMedia call is pending, no
\* media stream is live and both levels are 0.
C15_IdleHoldsNothing ==
  (~isStreaming /\ pendingAcq = 0) =>
     /\ streams = 0
     /\ inputLevel = Zero
     /\ outputLevel = Zero

\* A step of toggleStreaming(): its start, its stop, or the settling of its acquisition.
ToggleStep == pendingAcq' # pendingAcq \/ (isStreaming' # isStreaming /\ mounted' = mounted)

ToggleStopStep ==
  /\ isStreaming
  /\ ~isStreaming'
  /\ mounted' = mounted
  /\ pendingAcq' = pendingAcq

\* C19: toggleStreaming() called while streaming leaves the transport as it
\* is: it closes no socket, cancels no retry timer, and changes neither the
\* connected flag nor the reconnect attempt counter.
C19_StopLeavesTransport ==
  [][ ToggleStopStep =>
        UNCHANGED <<socket, orphans, isConnected, reconnectAttempts,
                    reconnectTimeout, timers, isConnectedState>>
    ]_vars

\* The session was stopped while a retry was pending: the timer is still armed.
C19_Witness ==
  /\ scenario = "stopped"
  /\ reconnectTimeout = "armed"
  /\ timers = 1
  /\ reconnectAttempts > 0

\* The connect() the setup effect awaits is rejected: its catch reports it.
OpenFailedStep == toasts' = <<Toast("Connection error", "destructive")>>

\* C17: when the transport open fails, the step that handles the failure
\* leaves the session idle: isStreaming false, no stream live or referenced,
\* both levels 0.
C17_OpenFailureReleasesDevice ==
  [][ OpenFailedStep =>
        /\ ~isStreaming'
        /\ streams' = 0
        /\ ~localStreamRef'
        /\ inputLevel' = Zero
        /\ outputLevel' = Zero
    ]_vars

\* The component's teardown.
TeardownStep == mounted = "yes" /\ mounted' = "gone"

\* C18: isStreaming turns from true to false only in a toggleStreaming() stop
\* or in teardown; in particular not in a socket close or error event, a
\* retry, or a close that finds the reconnect budget used up.
C18_StreamingSurvivesTransport ==
  [][ (isStreaming /\ ~isStreaming') =>
        \/ TeardownStep
        \/ /\ ToggleStopStep
           /\ toasts' = <<>>
           /\ invoked' = <<>>
           /\ UNCHANGED <<transportFields, decodes>>
    ]_vars

\* C20: the messages on the wire are captured frames, each at most once and
\* in capture order, and none of them is a frame that was captured while the
\* transport was disconnected.
C20_WireIsSubsequence ==
  /\ \A i \in 1..Len(wire) : wire[i].pcm16 \in (1..nextFrame) \ droppedFrames
  /\ \A i, j \in 1..Len(wire) : i < j => wire[i].pcm16 < wire[j].pcm16

\* A frame was captured while disconnected and dropped; two later frames
\* were sent, in capture order.
C20_Witness ==
  /\ droppedFrames # {}
  /\ Len(wire) = 2
  /\ wire[1].pcm16 < wire[2].pcm16
  /\ \A i \in 1..Len(wire) : \E d \in droppedFrames : d < wire[i].pcm16

\* The number of the transport's sockets that are open.
OpenSockets ==
  (IF socket.state = "OPEN" THEN 1 ELSE 0)
    + BagSize([o \in {x \in DOMAIN orphans : x.state = "OPEN"} |-> orphans[o]])

\* A socket's open event, a socket's close event.
OpenEventStep == OpenSockets' > OpenSockets
CloseEventStep == LiveSockets' < LiveSockets

\* C21: each event has one handler, the one registered last: a task invokes
\* at most one handler, and only the latest registration of the event it
\* handles; an open event invokes the latest onConnect handler exactly once
\* and a close event the latest onDisconnect handler exactly once.
C21_LatestHandlerOnly ==
  [][ /\ Len(invoked') <= 1
      /\ \A i \in DOMAIN invoked' : invoked'[i].handler = registered'[invoked'[i].event]
      /\ OpenEventStep =>
            invoked' = <<[event |-> "connect", handler |-> registered.connect]>>
      /\ CloseEventStep =>
            invoked' = <<[event |-> "disconnect", handler |-> registered.disconnect]>>
    ]_vars

\* h2 was registered for onConnect after h1, and an open event invoked it.
C21_Witness ==
  /\ registered.connect = "h2"
  /\ invoked = <<[event |-> "connect", handler |-> "h2"]>>

\* The sockets whose connect() promise has been rejected and that have not closed yet.
RejectedSockets ==
  (IF socket.promise = "rejected" THEN 1 ELSE 0)
    + BagSize([o \in {x \in DOMAIN orphans : x.promise = "rejected"} |-> orphans[o]])

\* A socket's error event rejects its promise.
ErrorEventStep == RejectedSockets' > RejectedSockets

\* A task counts an attempt or arms a retry timer.
RetryScheduledStep ==
  reconnectAttempts' > reconnectAttempts \/ timers' > timers \/ scheduled' # 0

\* C22: an error event rejects the pending promise of its socket and leaves
\* the attempt counter and the retry timer as they are; a service whose
\* constructor throws changes no field at all; and an attempt is counted and a
\* timer armed only by a close event, once for that event.
C22_OnlyCloseSchedulesRetry ==
  [][ /\ ErrorEventStep =>
            /\ UNCHANGED <<reconnectAttempts, reconnectTimeout, timers>>
            /\ scheduled' = 0
      /\ ~urlValid =>
            /\ UNCHANGED <<socket, orphans, reconnectAttempts, reconnectTimeout, timers>>
            /\ scheduled' = 0
      /\ RetryScheduledStep =>
            /\ CloseEventStep
            /\ timers' = timers + 1
            /\ reconnectAttempts' = reconnectAttempts + 1
    ]_vars

\* The first attempt has failed with an error event: its promise is rejected
\* and nothing is scheduled until the close event arrives.
C22_Witness ==
  /\ socket.state = "CLOSING"
  /\ socket.promise = "rejected"
  /\ ~socket.closeCalled
  /\ reconnectAttempts = 0
  /\ timers = 0
  /\ reconnectTimeout = "null"

\* C23 as stated: isStreaming becomes true only in a session whose transport
\* has completed a handshake and is connected.
C23_StreamingOnlyAfterOpen ==
  [][~isStreaming /\ isStreaming' => isConnected' /\ openedFrom' # "never"]_vars

\* C23, amended: isStreaming becomes true exactly in the continuation of
\* toggleStreaming() that follows a successful device acquisition; that step
\* records the permission and leaves the transport, whatever its state, alone.
C23_StreamingFollowsAcquisition ==
  [][~isStreaming /\ isStreaming' =>
        /\ pendingAcq' = pendingAcq - 1
        /\ streams' = streams + 1
        /\ localStreamRef'
        /\ micPermission' = "true"
        /\ UNCHANGED transportFields
    ]_vars

\* The session is Streaming while the first transport attempt is still in
\* its handshake.
C23_Witness ==
  /\ isStreaming
  /\ socket.state = "CONNECTING"
  /\ ~isConnected
  /\ openedFrom = "never"
  /\ streams = 1

\* The retry budget is spent: every attempt is counted, no timer is armed and
\* no socket is left that could open.
Exhausted ==
  /\ mounted # "no"
  /\ reconnectAttempts = maxReconnectAttempts
  /\ timers = 0
  /\ LiveSockets = 0

\* C24: the isConnected state of the session follows the transport: an open
\* event leaves it true and a close event leaves it false without stopping
\* capture; while the component is mounted it equals the service's flag; and
\* once the retry budget is spent it is false and no later step changes that.
C24_IsConnectedFollowsTransport ==
  [][ /\ OpenEventStep => isConnectedState' /\ isConnected'
      /\ CloseEventStep =>
            /\ ~isConnectedState'
            /\ ~isConnected'
            /\ UNCHANGED <<isStreaming, localStreamRef, streams, processors, rafs>>
      /\ mounted' = "yes" => isConnectedState' = isConnected'
      /\ Exhausted => Exhausted' /\ ~isConnectedState /\ ~isConnectedState'
    ]_vars

\* The budget is spent while the session is Streaming: the flag is false and
\* the capture chain is still in place.
C24_Witness ==
  /\ Exhausted
  /\ mounted = "yes"
  /\ isStreaming
  /\ ~isConnectedState
  /\ streams = 1
  /\ processors = 1
  /\ openedFrom # "never"

\* The failed first opens whose rejection the session has reported: sockets
\* that the setup effect asked for, rejected by their error event and not
\* closed yet.
ReportedFailures ==
  (IF socket.promise = "rejected" /\ socket.awaiter = "hook" THEN 1 ELSE 0)
    + BagSize([o \in {x \in DOMAIN orphans : x.promise = "rejected" /\ x.awaiter = "hook"}
                  |-> orphans[o]])

\* C25: a failure is reported once.  A transport open that failed and was
\* reported when its error event rejected connect() raises no second
\* notification when its close event follows; a failed acquisition raises
\* exactly one notification.
C25_FailureReportedOnce ==
  [][ /\ ReportedFailures' < ReportedFailures => toasts' = <<>>
      /\ pendingAcq' < pendingAcq /\ ~localStreamRef' /\ ~isStreaming' => Len(toasts') = 1
    ]_vars

\* The continuation of toggleStreaming() after getUserMedia failed with an
\* error other than NotAllowedError.
OtherFailureStep ==
  pendingAcq' < pendingAcq /\ toasts' = <<Toast("Streaming error", "destructive")>>

\* C26: an acquisition that fails with an error other than permission denied
\* leaves the session Idle (isStreaming false, no stream referenced, no
\* stream live) and micPermission as it was; micPermission becomes false
\* only in the step that handles a permission denial and true only in the
\* step that follows a successful acquisition.
C26_OtherFailureReturnsToIdle ==
  [][ /\ OtherFailureStep =>
            /\ ~isStreaming'
            /\ ~localStreamRef'
            /\ streams' = 0
            /\ UNCHANGED micPermission
      /\ micPermission # "false" /\ micPermission' = "false" =>
            pendingAcq' < pendingAcq /\ toasts' = <<PermissionDenied>>
      /\ micPermission # "true" /\ micPermission' = "true" =>
            pendingAcq' < pendingAcq /\ streams' = streams + 1 /\ localStreamRef'
    ]_vars

\* C27: the route of a decoded buffer is chosen when its success callback
\* runs: the buffer goes through the output analyser if and only if
\* outputAnalyzerRef is set at that moment, whatever route earlier buffers
\* took; one buffer is started per callback and none by any other step; and
\* the analyser, once created, stays.
C27_RoutedWhenScheduled ==
  [][ /\ DecodeGoodStep =>
            played' = <<[route |-> IF outputAnalyzerRef THEN "tap" ELSE "direct"]>>
      /\ ~DecodeGoodStep => played' = <<>>
      /\ outputAnalyzerRef => outputAnalyzerRef'
    ]_vars

\* A buffer decoded after the output analyser was created has been started
\* through it, after an earlier buffer went directly to the destination.
C27_Witness ==
  /\ played = <<[route |-> "tap"]>>
  /\ routedDirect
  /\ outputAnalyzerRef

\* C28: no step of toggleStreaming() (its start, its stop, the settling of
\* its acquisition) changes the transport: sockets, connected flag, attempt
\* counter, retry timer and the session's isConnected state stay as they are.
\* Once the retry budget is spent, no step at all brings a socket, a timer or
\* the connected flag back.
C28_TogglesLeaveTransport ==
  [][ /\ ToggleStep => UNCHANGED <<transportFields, isConnectedState>>
      /\ Exhausted =>
            /\ LiveSockets' = 0
            /\ timers' = 0
            /\ ~isConnected'
            /\ reconnectAttempts' = maxReconnectAttempts
    ]_vars

\* A start has just succeeded after the budget was spent: the session is
\* Streaming and still disconnected.
C28_Witness ==
  /\ Exhausted
  /\ mounted = "yes"
  /\ toasts = <<Toast("Streaming started", "default")>>
  /\ isStreaming
  /\ ~isConnected
  /\ ~isConnectedState

\* C29: at most one metering loop has a frame callback scheduled, and while
\* the session is not Streaming both levels are 0: no frame callback that
\* runs after a stop writes a level.
C29_OneMeteringLoop ==
  /\ rafs <= 1
  /\ ~isStreaming => inputLevel = Zero /\ outputLevel = Zero

\* C30: a captured block reaches the wire only in a step taken while
\* isStreaming is true, and while isStreaming is false no processor is
\* connected that could deliver a block, whether or not the transport is
\* connected.
C30_NoFrameWhileIdle ==
  [][ /\ wire' # wire => isStreaming /\ isStreaming'
      /\ nextFrame' # nextFrame => isStreaming /\ processors > 0
      /\ ~isStreaming' => processors' = 0 /\ ~processorRef'
    ]_vars

\* The session was stopped while the transport is open and before any block
\* was captured: no processor is left to deliver one.
C30_Witness ==
  /\ scenario = "stopped"
  /\ mounted = "yes"
  /\ ~isStreaming
  /\ isConnected
  /\ socket.state = "OPEN"
  /\ nextFrame = 0
  /\ processors = 0

\* C33: in every state of the transport the attempt counter is between 0 and
\* maxReconnectAttempts.
C33_AttemptsInRange == reconnectAttempts \in 0..maxReconnectAttempts

\* A close event found the counter at its maximum and left it there.
C33_Witness ==
  /\ reconnectAttempts = maxReconnectAttempts
  /\ closeLog # <<>>
  /\ closeLog[Len(closeLog)] = 0
  /\ timers = 0

\* C32: the attempt counter goes down only in an open event, which sets it
\* to 0, and up only in a close event; connect() and disconnect() calls leave
\* it as it is.  So when the counter is at its maximum, the close event of a
\* failed attempt, whoever made the attempt, counts nothing and arms no timer.
C32_OnlyOpenResetsAttempts ==
  [][ /\ reconnectAttempts' < reconnectAttempts => OpenEventStep /\ reconnectAttempts' = 0
      /\ reconnectAttempts' > reconnectAttempts => CloseEventStep
      /\ reconnectAttempts = maxReconnectAttempts /\ CloseEventStep =>
            /\ reconnectAttempts' = maxReconnectAttempts
            /\ scheduled' = 0
            /\ timers' = timers
            /\ reconnectTimeout' = reconnectTimeout
    ]_vars

\* The budget is spent, a close has already gone without a retry, and the
\* only socket left is one the caller asked for, failed by its error event.
C32_Witness ==
  /\ reconnectAttempts = maxReconnectAttempts
  /\ timers = 0
  /\ closeLog # <<>>
  /\ closeLog[Len(closeLog)] = 0
  /\ socket.awaiter = "caller"
  /\ socket.promise = "rejected"
  /\ LiveSockets = 1

\* C34: in every state of the transport at most one retry timer is pending.
C34_OneRetryTimer == timers <= 1

\* The server is up while the transport is not connected, the retry budget
\* is not spent and an attempt or a retry is under way.
ReachableWithBudget ==
  /\ endpoint = "up"
  /\ ~isConnected
  /\ reconnectAttempts < maxReconnectAttempts
  /\ timers > 0 \/ LiveSockets > 0

\* The transport is connected by an open event that invoked onConnect.
ConnectedAndNotified ==
  /\ isConnected
  /\ invoked = <<[event |-> "connect", handler |-> onConnectCallback]>>

\* C31: when the server is up, and stays up, while the transport is not
\* connected, fewer than maxReconnectAttempts attempts are counted and an
\* attempt or a retry is under way, then, the event loop running every due timer and delivering
\* every pending socket event, the transport becomes connected and onConnect
\* is invoked.
C31_EventuallyConnected == ReachableWithBudget ~> ConnectedAndNotified

\* The server came up after four failed attempts while the fourth retry timer
\* was pending, and the attempt of that timer has opened.
C31_Witness ==
  /\ endpoint = "up"
  /\ ConnectedAndNotified
  /\ openedFrom = "positive"
  /\ reconnectAttempts = 0
  /\ socket.state = "OPEN"

====
